---- MODULE Spec2Model ----
(***************************************************************************)
(* Model of pants' IdeaPluginGen console task                              *)
(* (src/python/pants/backend/project_info/tasks/idea_plugin_gen.py).       *)
(*                                                                         *)
(* Python strings are sequences of one-character strings, so that the      *)
(* regular expression substitution, the joins and the splits of the code   *)
(* are computed character by character.                                    *)
(***************************************************************************)
EXTENDS Integers, Sequences, FiniteSets, TLC

VARIABLES
  fn_specs,     \* get_project_name / generate_project input: positional_args
  fn_root,      \* get_buildroot() of the call under test
  fn_name,      \* result of get_project_name, NotCalled before the call
  fn_path,      \* configured_workspace.project_path, NotCalled before the call
  task,         \* per IdeaPluginGen instance: its fields, the locals of
                \* generate_project and its position in console_output
  dirs,         \* the directories that exist on disk
  files,        \* the files at final paths: path -> content
  tmpfiles,     \* the files in the temporary directory: name -> content
  tmp_fs        \* the filesystem tempfile.gettempdir() lies on

fvars == <<fn_specs, fn_root, fn_name, fn_path>>
tvars == <<task, dirs, files, tmpfiles, tmp_fs>>
vars == <<fn_specs, fn_root, fn_name, fn_path, task, dirs, files, tmpfiles, tmp_fs>>

\* markers that are no Python string: no string has a character this long
NotCalled == <<"not-called">>
IndexError == <<"IndexError">>

(***************************************************************************)
(* Bounds of the model.                                                    *)
(***************************************************************************)
\* longest positional_args list fed to the pure functions
MaxSpecs == 2
\* console_output calls made in all, over the instances
MaxCalls == 2
\* length of the long target specifiers that make the joined name pass
\* PROJECT_NAME_LIMIT
LongLen == 110

(***************************************************************************)
(* Program constants.                                                      *)
(***************************************************************************)
PROJECT_NAME_LIMIT == 200

Digits == {"0", "1", "2", "3", "4", "5", "6", "7", "8", "9"}
Lower == {"a", "b", "c", "d", "e", "f", "g", "h", "i", "j", "k", "l", "m",
          "n", "o", "p", "q", "r", "s", "t", "u", "v", "w", "x", "y", "z"}
Upper == {"A", "B", "C", "D", "E", "F", "G", "H", "I", "J", "K", "L", "M",
          "N", "O", "P", "Q", "R", "S", "T", "U", "V", "W", "X", "Y", "Z"}

\* the character class with the ':' left out
NameChars_no_colon == Digits \cup Lower \cup Upper \cup {"_"}

\* the characters the pattern '[^0-9a-zA-Z:_]+' does NOT match
NameChars == Digits \cup Lower \cup Upper \cup {":", "_"}

(***************************************************************************)
(* String helpers of the Python runtime, as the code uses them.            *)
(***************************************************************************)
\* sep.join(xs)
RECURSIVE str_join(_, _)
str_join(sep, xs) ==
  IF xs = <<>> THEN <<>>
  ELSE IF Len(xs) = 1 THEN xs[1]
  ELSE xs[1] \o sep \o str_join(sep, Tail(xs))

\* what re.sub('[^0-9a-zA-Z:_]+', '.', s) puts out for position i of s: the
\* character itself when the pattern does not match it, one '.' for the
\* first character of a maximal run the pattern matches, nothing for the
\* rest of the run
re_sub_at(s, i) ==
  IF s[i] \in NameChars THEN <<s[i]>>
  ELSE IF i > 1 /\ s[i - 1] \notin NameChars THEN <<>>
  ELSE <<".">>

\* re.sub('[^0-9a-zA-Z:_]+', '.', s) over positions lo..hi (halving keeps
\* the evaluation shallow on long strings)
RECURSIVE re_sub_range(_, _, _)
re_sub_range(s, lo, hi) ==
  IF lo > hi THEN <<>>
  ELSE IF lo = hi THEN re_sub_at(s, lo)
  ELSE LET mid == (lo + hi) \div 2
       IN re_sub_range(s, lo, mid) \o re_sub_range(s, mid + 1, hi)

re_sub(s) == re_sub_range(s, 1, Len(s))

\* s[:n]
str_prefix(s, n) == SubSeq(s, 1, IF Len(s) < n THEN Len(s) ELSE n)

\* s.split(c)[0]: the part of s before the first c, all of s without one
split_first(s, c) ==
  LET hits == {i \in 1..Len(s) : s[i] = c}
  IN IF hits = {} THEN s
     ELSE SubSeq(s, 1, (CHOOSE i \in hits : \A j \in hits : i <= j) - 1)

\* os.path.join(a, b) on posix
path_join(a, b) ==
  IF b # <<>> /\ b[1] = "/" THEN b
  ELSE IF a = <<>> \/ a[Len(a)] = "/" THEN a \o b
  ELSE a \o <<"/">> \o b

(***************************************************************************)
(* IdeaPluginGen.get_project_name                                          *)
(***************************************************************************)
escaped_name(target_specs) == re_sub(str_join(<<"_", "_">>, target_specs))

\* the name without the cut at PROJECT_NAME_LIMIT
get_project_name_uncut(target_specs) == escaped_name(target_specs)

get_project_name(target_specs) ==
  str_prefix(escaped_name(target_specs), PROJECT_NAME_LIMIT)

(***************************************************************************)
(* generate_project: the workspace configuration                           *)
(***************************************************************************)
abs_target_specs(buildroot, specs) ==
  [i \in 1..Len(specs) |-> path_join(buildroot, specs[i])]

project_path(buildroot, specs) ==
  path_join(buildroot, split_first(abs_target_specs(buildroot, specs)[1], ":"))

(***************************************************************************)
(* Inputs of the pure functions.                                           *)
(***************************************************************************)
Rep(c, n) == [i \in 1..n |-> c]

ScenarioA == <<"s","r","c","/","j","a","v","a","/","c","o","m","/",
               "e","x","a","m","p","l","e",":",":">>

SpecPool ==
  { ScenarioA,
    <<"a", ":", "t", "1">>,
    <<"b", ":", "t", "2">>,
    <<"a", "-", "/", "b", "Z", "_", "9">>,
    <<":", "t">>,
    <<"/", "o", "p", "t", "/", "x", ":", "y">>,
    <<>>,
    Rep("k", LongLen) \o <<"/", "-">>,
    Rep("/", LongLen) \o <<"a">> }

RECURSIVE SeqsUpTo(_, _)
SeqsUpTo(S, n) ==
  IF n = 0 THEN {<<>>}
  ELSE LET shorter == SeqsUpTo(S, n - 1)
       IN shorter \cup {Append(q, x) : q \in shorter, x \in S}

FnInputs == SeqsUpTo(SpecPool, MaxSpecs)

\* get_buildroot() is an absolute path; a directory name may hold a ':'
BuildRoots == { <<"/", "w">>, <<"/", "w", ":", "x">>, <<"/">> }


(***************************************************************************)
(* The task: construction, console_output, generate_project.              *)
(***************************************************************************)
\* the IdeaPluginGen instances (invocations) run against one build root
Tasks == {"t1", "t2"}

\* the build root of the invocations, and its filesystem
TheBuildRoot == <<"/", "w">>
BuildFs == "build-fs"
OtherFs == "other-fs"

\* names mkdtemp can draw for a working directory
DirNames == {"tmpA", "tmpB"}

\* positional_args of an invocation
ArgChoices == { <<>>, << <<"a", ":", "t", "1">>, <<"b", ":", "t", "2">> >> }

\* --open / --open-with of an invocation
OpenModes == {"no-open", "open-with", "ui-open"}


\* line 127: scm.worktree if scm else None; the build root of the model is
\* under no source control
git_root == "None"

NoPath == <<>>
NoTmp == <<>>
NoErr == "none"

\* os.path.join(get_buildroot(), ".idea", self.__class__.__name__)
output_dir == <<TheBuildRoot, ".idea", "IdeaPluginGen">>

\* os.path.join(directory, name): the path one component longer
path_in(dir, name) == Append(dir, name)

out_name == <<"o", "u", "t">>
ipr_suffix == <<".", "i", "p", "r">>
iws_suffix == <<".", "i", "w", "s">>
rootmodule_iml == <<"r","o","o","t","m","o","d","u","l","e",".","i","m","l">>

\* pants.util.contextutil.temporary_dir(root_dir=...): tempfile.mkdtemp makes
\* a directory under root_dir whose name no existing entry has
temporary_dir(root_dir, existing) ==
  {path_in(root_dir, n) : n \in DirNames} \ existing

\* a fixed working directory in place of a fresh one
output_project_dirs_fixed(existing) ==
  {path_in(output_dir, CHOOSE n \in DirNames : TRUE)}

\* line 99: the working directory is a temporary_dir under output_dir
output_project_dirs(existing) == temporary_dir(output_dir, existing)

\* line 99: cleanup=False
workdir_cleanup == FALSE

tempfile_cleanup_on == TRUE

\* line 165: cleanup=False
tempfile_cleanup == FALSE

\* the order of the three shutil.move calls swapped for the first two
move_order_swapped == <<2, 1, 3>>

\* lines 156-158: the generated files in the order they are moved
\* (1: ipr, 2: iws, 3: iml_root)
move_order == <<1, 2, 3>>

\* lines 152-154: the generated files in the order they are rendered
render_order == <<1, 2, 3>>

\* the final path of generated file g of task record r (lines 156-158)
final_path(r, g) ==
  IF g = 1 THEN r.project_filename
  ELSE IF g = 2 THEN r.workspace_filename
  ELSE r.rootmodule_filename

FinalPaths(r) == {final_path(r, g) : g \in 1..3}

\* lines 124-134 and 137-142, 152-154: what is rendered for generated file g
rendering(r, g) ==
  IF g = 1 THEN [template |-> "project-12.mustache", git_root |-> git_root,
                 targets |-> <<>>, project_path |-> <<>>]
  ELSE IF g = 2 THEN
    [template |-> "workspace-12.mustache", git_root |-> "unused",
     targets |-> abs_target_specs(TheBuildRoot, r.positional_args),
     project_path |-> project_path(TheBuildRoot, r.positional_args)]
  ELSE [template |-> "workspace-12.mustache", git_root |-> "unused",
        targets |-> <<>>, project_path |-> <<>>]

complete_file(r, g) == [text |-> rendering(r, g), complete |-> TRUE]
partial_file(r, g) == [text |-> rendering(r, g), complete |-> FALSE]

\* f with path p holding content c
write_file(f, p, c) == [q \in DOMAIN f \cup {p} |-> IF q = p THEN c ELSE f[q]]
\* f without path p
remove_file(f, p) == [q \in DOMAIN f \ {p} |-> f[q]]

NewTask(args, mode) ==
  [pc |-> "new", err |-> NoErr,
   positional_args |-> args, open_mode |-> mode,
   gen_project_workdir |-> NoPath, project_filename |-> NoPath,
   workspace_filename |-> NoPath, rootmodule_filename |-> NoPath,
   intellij_output_dir |-> NoPath,
   k |-> 0, calls |-> 0, tmp |-> <<NoTmp, NoTmp, NoTmp>>,
   n_tmp |-> 0, reported |-> FALSE]

FnIdle ==
  /\ fn_specs = <<>>
  /\ fn_root = TheBuildRoot
  /\ fn_name = NotCalled
  /\ fn_path = NotCalled

Init ==
  /\ FnIdle
  /\ \E m \in OpenModes :
       task \in [Tasks -> {NewTask(a, m) : a \in ArgChoices}]
  /\ dirs = {}
  /\ files = <<>>
  /\ tmpfiles = <<>>
  /\ tmp_fs \in {BuildFs, OtherFs}

\* lines 77-109: __init__
Construct(t) ==
  /\ task[t].pc = "new"
  /\ \E d \in output_project_dirs(dirs) :
       LET name == get_project_name(task[t].positional_args)
       IN /\ task' = [task EXCEPT ![t] =
                 [@ EXCEPT !.pc = "constructed",
                           !.gen_project_workdir = d,
                           !.project_filename = path_in(d, name \o ipr_suffix),
                           !.workspace_filename = path_in(d, name \o iws_suffix),
                           !.rootmodule_filename = path_in(d, rootmodule_iml),
                           !.intellij_output_dir = path_in(d, out_name)]]
          /\ dirs' = IF workdir_cleanup THEN dirs \cup {output_dir}
                     ELSE dirs \cup {output_dir, d}
  /\ UNCHANGED <<files, tmpfiles, tmp_fs, fvars>>

\* console_output calls made so far, over the instances in S
RECURSIVE CallsOf(_)
CallsOf(S) ==
  IF S = {} THEN 0
  ELSE LET t == CHOOSE x \in S : TRUE
       IN task[t].calls + CallsOf(S \ {t})

Calls == CallsOf(Tasks)

\* the record of a task that raised e
raised(r, e) == [r EXCEPT !.pc = "failed", !.err = e]

\* the empty-list check made only after the output directory exists
console_output_check_late(t) ==
  /\ task[t].pc \in {"constructed", "done", "failed"}
  /\ Calls < MaxCalls
  /\ IF task[t].positional_args = <<>>
     THEN /\ task' = [task EXCEPT ![t] =
                 [raised(@, "NoTargets") EXCEPT !.calls = @ + 1,
                                                !.reported = FALSE]]
          /\ dirs' = dirs \cup {task[t].intellij_output_dir}
     ELSE /\ task' = [task EXCEPT ![t] =
                 [@ EXCEPT !.pc = "generate", !.err = NoErr,
                           !.calls = @ + 1, !.reported = FALSE]]
          /\ dirs' = dirs
  /\ UNCHANGED <<files, tmpfiles, tmp_fs, fvars>>

\* lines 169-179: console_output up to the call of generate_project
console_output_check(t) ==
  /\ task[t].pc \in {"constructed", "done", "failed"}
  /\ Calls < MaxCalls
  /\ task' = [task EXCEPT ![t] =
       IF @.positional_args = <<>>
       THEN [raised(@, "NoTargets") EXCEPT !.calls = @ + 1, !.reported = FALSE]
       ELSE [@ EXCEPT !.pc = "generate", !.err = NoErr,
                      !.calls = @ + 1, !.reported = FALSE]]
  /\ UNCHANGED <<dirs, files, tmpfiles, tmp_fs, fvars>>

\* lines 119-145: generate_project up to the first gen_file
generate_setup(t) ==
  /\ task[t].pc = "generate"
  /\ dirs' = dirs \cup {task[t].intellij_output_dir}
  /\ task' = [task EXCEPT ![t] =
       [@ EXCEPT !.pc = "render", !.k = 1, !.tmp = <<NoTmp, NoTmp, NoTmp>>]]
  /\ UNCHANGED <<files, tmpfiles, tmp_fs, fvars>>

\* the name NamedTemporaryFile gives the next temporary file of task t
next_tmp(t) == <<t, task[t].n_tmp + 1>>

\* where control goes after the k-th gen_file returns
after_render(r) ==
  IF r.k < 3 THEN [r EXCEPT !.k = @ + 1] ELSE [r EXCEPT !.pc = "move", !.k = 1]

\* the open step reached without the yield between it and the moves
after_move_no_yield(r) ==
  IF r.k < 3 THEN [r EXCEPT !.pc = "move", !.k = @ + 1]
  ELSE [r EXCEPT !.pc = "open", !.k = 0]

\* where control goes after the k-th shutil.move returns
after_move(r) ==
  IF r.k < 3 THEN [r EXCEPT !.pc = "move", !.k = @ + 1]
  ELSE [r EXCEPT !.pc = "yield", !.k = 0]

\* lines 147-154, 162-167: one gen_file call that returns
gen_file_ok(t) ==
  /\ task[t].pc = "render"
  /\ LET g == render_order[task[t].k]
         nm == next_tmp(t)
     IN /\ tmpfiles' = IF tempfile_cleanup THEN tmpfiles
                       ELSE write_file(tmpfiles, nm, complete_file(task[t], g))
        /\ task' = [task EXCEPT ![t] =
               after_render([@ EXCEPT !.tmp[g] = nm, !.n_tmp = @ + 1])]
  /\ UNCHANGED <<dirs, files, tmp_fs, fvars>>

\* line 149: the template cannot be loaded; no temporary file is made
gen_file_load_error(t) ==
  /\ task[t].pc = "render"
  /\ task' = [task EXCEPT ![t] = raised(@, "TemplateLoadError")]
  /\ UNCHANGED <<dirs, files, tmpfiles, tmp_fs, fvars>>

\* lines 165-166: generator.write raises inside the temporary_file block
gen_file_write_error(t) ==
  /\ task[t].pc = "render"
  /\ LET g == render_order[task[t].k]
         nm == next_tmp(t)
     IN /\ tmpfiles' = IF tempfile_cleanup THEN tmpfiles
                       ELSE write_file(tmpfiles, nm, partial_file(task[t], g))
        /\ task' = [task EXCEPT ![t] =
               raised([@ EXCEPT !.n_tmp = @ + 1], "RenderError")]
  /\ UNCHANGED <<dirs, files, tmp_fs, fvars>>

move_src(t) == task[t].tmp[move_order[task[t].k]]
move_dst(t) == final_path(task[t], move_order[task[t].k])

\* lines 156-158, shutil.move on one filesystem: os.rename
move_rename(t) ==
  /\ task[t].pc = "move"
  /\ tmp_fs = BuildFs
  /\ move_src(t) \in DOMAIN tmpfiles
  /\ files' = write_file(files, move_dst(t), tmpfiles[move_src(t)])
  /\ tmpfiles' = remove_file(tmpfiles, move_src(t))
  /\ task' = [task EXCEPT ![t] = after_move(@)]
  /\ UNCHANGED <<dirs, tmp_fs, fvars>>

\* lines 156-158, shutil.move raises before anything is written at the
\* destination (the source is gone, the destination cannot be opened)
move_error(t) ==
  /\ task[t].pc = "move"
  /\ task' = [task EXCEPT ![t] = raised(@, "MoveError")]
  /\ UNCHANGED <<dirs, files, tmpfiles, tmp_fs, fvars>>

\* lines 156-158, shutil.move across filesystems: os.rename fails and the
\* file is copied; the copy has begun
move_copy_begin(t) ==
  /\ task[t].pc = "move"
  /\ tmp_fs # BuildFs
  /\ move_src(t) \in DOMAIN tmpfiles
  /\ files' = write_file(files, move_dst(t),
                         [tmpfiles[move_src(t)] EXCEPT !.complete = FALSE])
  /\ task' = [task EXCEPT ![t] = [@ EXCEPT !.pc = "copying"]]
  /\ UNCHANGED <<dirs, tmpfiles, tmp_fs, fvars>>

\* the copy ends and the source is unlinked
move_copy_end(t) ==
  /\ task[t].pc = "copying"
  /\ files' = write_file(files, move_dst(t), tmpfiles[move_src(t)])
  /\ tmpfiles' = remove_file(tmpfiles, move_src(t))
  /\ task' = [task EXCEPT ![t] = after_move(@)]
  /\ UNCHANGED <<dirs, tmp_fs, fvars>>

\* the copy fails part-way (disk full, I/O error)
move_copy_error(t) ==
  /\ task[t].pc = "copying"
  /\ task' = [task EXCEPT ![t] = raised(@, "MoveError")]
  /\ UNCHANGED <<dirs, files, tmpfiles, tmp_fs, fvars>>

\* line 182: the caller takes the yielded working directory
yield_workdir(t) ==
  /\ task[t].pc = "yield"
  /\ task' = [task EXCEPT ![t] = [@ EXCEPT !.pc = "open", !.reported = TRUE]]
  /\ UNCHANGED <<dirs, files, tmpfiles, tmp_fs, fvars>>

\* line 184: --open is off
open_skipped(t) ==
  /\ task[t].pc = "open"
  /\ task[t].open_mode = "no-open"
  /\ task' = [task EXCEPT ![t] = [@ EXCEPT !.pc = "done"]]
  /\ UNCHANGED <<dirs, files, tmpfiles, tmp_fs, fvars>>

\* lines 186-188: subprocess.Popen starts the --open-with program
popen_ok(t) ==
  /\ task[t].pc = "open"
  /\ task[t].open_mode = "open-with"
  /\ task' = [task EXCEPT ![t] = [@ EXCEPT !.pc = "done"]]
  /\ UNCHANGED <<dirs, files, tmpfiles, tmp_fs, fvars>>

\* lines 186-188: subprocess.Popen raises OSError, which is not caught
popen_error(t) ==
  /\ task[t].pc = "open"
  /\ task[t].open_mode = "open-with"
  /\ task' = [task EXCEPT ![t] = raised(@, "OSError")]
  /\ UNCHANGED <<dirs, files, tmpfiles, tmp_fs, fvars>>

\* lines 190-191: desktop.ui_open returns
ui_open_ok(t) ==
  /\ task[t].pc = "open"
  /\ task[t].open_mode = "ui-open"
  /\ task' = [task EXCEPT ![t] = [@ EXCEPT !.pc = "done"]]
  /\ UNCHANGED <<dirs, files, tmpfiles, tmp_fs, fvars>>

\* lines 192-193: desktop.OpenError is raised again as a TaskError
ui_open_error(t) ==
  /\ task[t].pc = "open"
  /\ task[t].open_mode = "ui-open"
  /\ task' = [task EXCEPT ![t] = raised(@, "TaskError(OpenError)")]
  /\ UNCHANGED <<dirs, files, tmpfiles, tmp_fs, fvars>>

Next ==
  \E t \in Tasks :
    \/ Construct(t)
    \/ console_output_check(t)
    \/ generate_setup(t)
    \/ gen_file_ok(t)
    \/ gen_file_load_error(t)
    \/ gen_file_write_error(t)
    \/ move_rename(t)
    \/ move_error(t)
    \/ move_copy_begin(t)
    \/ move_copy_end(t)
    \/ move_copy_error(t)
    \/ yield_workdir(t)
    \/ open_skipped(t)
    \/ popen_ok(t)
    \/ popen_error(t)
    \/ ui_open_ok(t)
    \/ ui_open_error(t)

Spec == Init /\ [][Next]_vars

FnInit ==
  /\ fn_specs \in FnInputs
  /\ fn_root \in BuildRoots
  /\ fn_name = NotCalled
  /\ fn_path = NotCalled
  /\ task = [t \in Tasks |-> NewTask(<<>>, "no-open")]
  /\ dirs = {}
  /\ files = <<>>
  /\ tmpfiles = <<>>
  /\ tmp_fs = BuildFs

CallGetProjectName ==
  /\ fn_name = NotCalled
  /\ fn_name' = get_project_name(fn_specs)
  /\ UNCHANGED <<fn_specs, fn_root, fn_path, tvars>>

\* lines 136-139; abs_target_specs[0] raises IndexError on an empty list
CallProjectPath ==
  /\ fn_path = NotCalled
  /\ fn_path' = IF fn_specs = <<>> THEN IndexError
                ELSE project_path(fn_root, fn_specs)
  /\ UNCHANGED <<fn_specs, fn_root, fn_name, tvars>>

FnNext == CallGetProjectName \/ CallProjectPath

SpecFn == FnInit /\ [][FnNext]_vars

(***************************************************************************)
(* The claims.                                                             *)
(***************************************************************************)
Constructed(t) == task[t].pc # "new"

\* the temporary files task t made that still exist
TmpOf(t) == {n \in DOMAIN tmpfiles : n[1] = t}

\* the directories the instances other than t make
DirsOfOthers(t) ==
  UNION {{output_dir, task[u].gen_project_workdir, task[u].intellij_output_dir} :
         u \in {v \in Tasks \ {t} : Constructed(v)}}

\* generated file g of the current generate_project run of t has left the
\* temporary directory for its final path
moved(t, g) == task[t].tmp[g] # NoTmp /\ task[t].tmp[g] \notin DOMAIN tmpfiles

RenderErrors == {"TemplateLoadError", "RenderError"}
OpenErrors == {"TaskError(OpenError)", "OSError"}

C2_FinalPathsNeverPartial ==
  \A p \in DOMAIN files : files[p].complete

\* C3: a render step that fails leaves every final path as it was, raises
\* the error, and deletes no temporary file: the one it was rendering into
\* stays where it is.
C3_RenderFailureKeepsFinalAndTemp ==
  [][\A t \in Tasks :
       (task[t].pc = "render" /\ task'[t].pc = "failed") =>
         /\ files' = files
         /\ task'[t].err \in RenderErrors
         /\ \A n \in DOMAIN tmpfiles :
              n \in DOMAIN tmpfiles' /\ tmpfiles'[n] = tmpfiles[n]
         /\ task'[t].err = "RenderError" => next_tmp(t) \in DOMAIN tmpfiles']_vars

\* a render failed on a regeneration, over a complete project file of the
\* run before, and the temporary file of the failed render is on disk
C3_Witness ==
  \E t \in Tasks :
    /\ task[t].pc = "failed"
    /\ task[t].err = "RenderError"
    /\ task[t].calls = 2
    /\ task[t].project_filename \in DOMAIN files
    /\ files[task[t].project_filename].complete
    /\ <<t, task[t].n_tmp>> \in DOMAIN tmpfiles
    /\ ~tmpfiles[<<t, task[t].n_tmp>>].complete

\* C4 as stated: every temporary file lies on the filesystem of the final
\* paths, and no move is carried out as a copy.
C4_TempOnFilesystemOfFinalPath ==
  /\ tmpfiles # <<>> => tmp_fs = BuildFs
  /\ \A t \in Tasks : task[t].pc # "copying"

\* C5: the name get_project_name returns holds only characters of
\* [0-9a-zA-Z:_.] and is at most PROJECT_NAME_LIMIT (200) characters long.
C5_NameCharsAndLength ==
  fn_name # NotCalled =>
    /\ Len(fn_name) <= PROJECT_NAME_LIMIT
    /\ \A i \in 1..Len(fn_name) : fn_name[i] \in NameChars \cup {"."}

\* a name that was cut at the limit and holds a '.'
C5_Witness ==
  /\ fn_name # NotCalled
  /\ fn_specs # <<>>
  /\ Len(str_join(<<"_", "_">>, fn_specs)) > PROJECT_NAME_LIMIT
  /\ Len(fn_name) = PROJECT_NAME_LIMIT
  /\ \E i \in 1..Len(fn_name) : fn_name[i] = "."

ScenarioA_Claimed == <<"s","r","c",".","j","a","v","a",".","c","o","m",".",
                       "e","x","a","m","p","l","e",".",".">>

ScenarioA_Name == <<"s","r","c",".","j","a","v","a",".","c","o","m",".",
                    "e","x","a","m","p","l","e",":",":">>

\* C6 as stated: for ["src/java/com/example::"] the derived project name is
\* src.java.com.example..
C6_ScenarioA_TrailingDots ==
  (fn_specs = <<ScenarioA>> /\ fn_name # NotCalled) => fn_name = ScenarioA_Claimed

\* C6 amended: for ["src/java/com/example::"] the derived project name is
\* src.java.com.example:: (each slash becomes a dot, the colons are kept).
C6_ScenarioA_ColonsKept ==
  (fn_specs = <<ScenarioA>> /\ fn_name # NotCalled) => fn_name = ScenarioA_Name

C6_Witness == fn_specs = <<ScenarioA>> /\ fn_name # NotCalled

\* C7 as stated: project_path is the build root joined with the part of the
\* first target specifier before its first ':', whatever the later specifiers
\* and whatever ':' the build root holds.
C7_ProjectPathFromFirstSpec ==
  (fn_path # NotCalled /\ fn_specs # <<>>) =>
    fn_path = path_join(fn_root, split_first(fn_specs[1], ":"))

\* C8: the open step is reached, and an open failure raised, only once all
\* three files are complete at their final paths and the working directory
\* has been reported to the caller.
C8_OpenOnlyAfterGenerationReported ==
  \A t \in Tasks :
    (task[t].pc = "open" \/ task[t].err \in OpenErrors) =>
      /\ task[t].reported
      /\ \A g \in 1..3 :
           /\ final_path(task[t], g) \in DOMAIN files
           /\ files[final_path(task[t], g)] = complete_file(task[t], g)

C8_Witness ==
  \E t \in Tasks :
    task[t].pc = "failed" /\ task[t].err = "TaskError(OpenError)"

\* C9: two instances made against the same root have distinct working
\* directories, both on disk from construction on, and no final path in
\* common, also with the same target specifiers.
C9_OwnWorkingDirectory ==
  \A t \in Tasks : \A u \in Tasks \ {t} :
    (Constructed(t) /\ Constructed(u)) =>
      /\ task[t].gen_project_workdir # task[u].gen_project_workdir
      /\ task[t].gen_project_workdir \in dirs
      /\ task[u].gen_project_workdir \in dirs
      /\ FinalPaths(task[t]) \cap FinalPaths(task[u]) = {}

\* two invocations with the same specifiers have both ended, each with its
\* project file written
C9_Witness ==
  \E t \in Tasks : \E u \in Tasks \ {t} :
    /\ task[t].pc = "done" /\ task[u].pc = "done"
    /\ task[t].positional_args = task[u].positional_args
    /\ task[t].project_filename \in DOMAIN files
    /\ task[u].project_filename \in DOMAIN files

InGenerate(t) ==
  task[t].pc \in {"render", "move", "copying", "yield", "open", "done"}
  \/ (task[t].pc = "failed" /\ task[t].err \in RenderErrors \cup {"MoveError"})

C10_Order(t) ==
  /\ (task[t].pc = "render" \/ task[t].err \in RenderErrors) =>
       \A g \in 1..3 : ~moved(t, g)
  /\ task[t].pc \in {"move", "copying"} =>
       \A g \in 1..3 : task[t].tmp[g] # NoTmp
  /\ InGenerate(t) => (moved(t, 2) => moved(t, 1)) /\ (moved(t, 3) => moved(t, 2))
  /\ task[t].err = "MoveError" => ~moved(t, 3)

\* C10: all three templates are rendered before any file is moved, the moves
\* go project, workspace, root-module; so no render step, failed or not,
\* touches a final path, and a failed run leaves a prefix of the three in
\* place: none after a render failure, at most two after a move failure.
C10_RenderAllThenMoveInOrder ==
  [][\A t \in Tasks :
       /\ (task[t].pc = "render" /\ task'[t] # task[t]) => files' = files
       /\ C10_Order(t)']_vars

\* a move failure with the project and workspace files in place
C10_Witness ==
  \E t \in Tasks :
    /\ task[t].err = "MoveError"
    /\ moved(t, 1) /\ moved(t, 2) /\ ~moved(t, 3)

====
